---------------------------- MODULE Spec2Model ----------------------------
(***************************************************************************)
(* Model of streamlit_ode_demo.py: the two Euler integrators for           *)
(* dC/dt = -k C and the accuracy / stability diagnosis made by main().     *)
(*                                                                         *)
(* Python floats are modelled as exact rationals <<numerator, denominator>>*)
(* in lowest terms with a positive denominator.  NaN is <<0, 0>> and       *)
(* float('inf') is <<1, 0>>.                                               *)
(***************************************************************************)
EXTENDS Integers, Sequences, FiniteSets, TLC

VARIABLES caller, pc, fault, method, h, k, C0, t_max,
          n_steps, t, C, i,
          t_explicit, C_explicit, t_implicit, C_implicit,
          accuracy, stability

vars == <<caller, pc, fault, method, h, k, C0, t_max,
          n_steps, t, C, i,
          t_explicit, C_explicit, t_implicit, C_implicit,
          accuracy, stability>>

-----------------------------------------------------------------------------
(* Rational arithmetic standing for the float operators of the source.     *)

AbsI(x) == IF x < 0 THEN -x ELSE x

RECURSIVE Gcd(_, _)
Gcd(a, b) == IF b = 0 THEN a ELSE Gcd(b, a % b)

\* n/d in lowest terms, d > 0
Rat(n, d) == LET g == Gcd(AbsI(n), d) IN <<n \div g, d \div g>>

R(n) == <<n, 1>>

NaN == <<0, 0>>

Inf == <<1, 0>>

IsNaN(x) == x = NaN

RNeg(a) == <<-a[1], a[2]>>

RAdd(a, b) ==
    LET g == Gcd(a[2], b[2])
    IN  Rat(a[1] * (b[2] \div g) + b[1] * (a[2] \div g), (a[2] \div g) * b[2])

RSub(a, b) == RAdd(a, RNeg(b))

RMul(a, b) ==
    LET g1 == Gcd(AbsI(a[1]), b[2])
        g2 == Gcd(AbsI(b[1]), a[2])
    IN  Rat((a[1] \div g1) * (b[1] \div g2), (a[2] \div g2) * (b[2] \div g1))

\* a / b for b # 0
RDiv(a, b) ==
    IF b[1] > 0 THEN RMul(a, <<b[2], b[1]>>)
                ELSE RMul(a, <<-b[2], -b[1]>>)

\* abs(); abs(inf) = inf
RAbs(a) == <<AbsI(a[1]), a[2]>>

\* a < b; inf is less than nothing, every finite value is less than inf
RLt(a, b) ==
    IF a = Inf THEN FALSE
    ELSE IF b = Inf THEN TRUE
    ELSE LET g == Gcd(a[2], b[2])
         IN  a[1] * (b[2] \div g) < b[1] * (a[2] \div g)

RGt(a, b) == RLt(b, a)

RLe(a, b) == ~RLt(b, a)

\* int(x): truncation toward zero
RInt(a) == IF a[1] >= 0 THEN a[1] \div a[2] ELSE -((-a[1]) \div a[2])

-----------------------------------------------------------------------------
(* Inputs.                                                                  *)

\* largest horizon passed to the integrators when they are called directly
MaxTMax == 10

\* parameters main() fixes
main_k == <<1, 2>>

main_C0 == R(4)

main_t_max == R(10)

\* positions of the step size slider (0.1 .. 5.0 by 0.1) that are explored
SliderH == { R(1), R(2), <<5, 2>>, R(3), <<16, 5>>, <<7, 2>>, R(4),
             <<41, 10>>, <<9, 2>>, R(5) }

Methods == { "Explicit Euler", "Implicit Euler" }

\* arguments of direct calls of the integrators, valid and invalid ones
ArgH == { R(-1), R(0), R(1), R(2), R(3), <<9, 2>> }

ArgK == { R(0), <<1, 2>>, R(1), R(3) }

ArgC0 == { R(-4), R(0), R(4), R(2500) }

ArgTMax == { R(n) : n \in {0, 3, MaxTMax} }

-----------------------------------------------------------------------------
(* Pure helpers of the integrators.                                         *)

\* np.linspace(0, stop, num) for num >= 0
linspace(stop, num) ==
    IF num = 1 THEN << R(0) >>
    ELSE [j \in 1..num |->
            IF j = num THEN stop
            ELSE RMul(R(j - 1), RDiv(stop, R(num - 1)))]

\* np.zeros(num)
zeros(num) == [j \in 1..num |-> R(0)]

\* sign slip in the slope: C[i] + h * (k * C[i])
ExplicitUpdateGrowth(c, hh, kk) == RAdd(c, RMul(hh, RMul(kk, c)))

\* C[i] + h * (-k * C[i])
ExplicitUpdate(c, hh, kk) == RAdd(c, RMul(hh, RMul(RNeg(kk), c)))

\* the forward formula used in the backward method: C[i] * (1 - h * k)
ImplicitUpdateForward(c, hh, kk) == RMul(c, RSub(R(1), RMul(hh, kk)))

\* C[i] / (1 + h * k)
ImplicitUpdate(c, hh, kk) == RDiv(c, RAdd(R(1), RMul(hh, kk)))

\* a threshold of 100 instead of 1000
DivergedAbove100(c) == RGt(RAbs(c), R(100))

\* abs(C[i + 1]) > 1000
Diverged(c) == RGt(RAbs(c), R(1000))

\* only C[i + 1] is overwritten: C[i + 1] = np.nan
NanSingle(arr, j) == [x \in 1..Len(arr) |-> IF x = j THEN NaN ELSE arr[x]]

\* C[i + 1:] = np.nan   (j is the 1-based position of C[i + 1])
NanTail(arr, j) == [x \in 1..Len(arr) |-> IF x >= j THEN NaN ELSE arr[x]]

-----------------------------------------------------------------------------
Init ==
    /\ caller = "none"
    /\ pc = "idle"
    /\ fault = "none"
    /\ method = "none"
    /\ h = R(0) /\ k = R(0) /\ C0 = R(0) /\ t_max = R(0)
    /\ n_steps = 0
    /\ t = << >> /\ C = << >>
    /\ i = 0
    /\ t_explicit = << >> /\ C_explicit = << >>
    /\ t_implicit = << >> /\ C_implicit = << >>
    /\ accuracy = "none"
    /\ stability = "none"

\* Lines 73-76 / 89-92: sample count, time grid, value array, C[0] = C0.
Prologue(loop) ==
    IF h'[1] = 0
    THEN /\ pc' = "fault"
         /\ fault' = "ZeroDivisionError"
         /\ UNCHANGED <<n_steps, t, C, i>>
    ELSE LET n == RInt(RDiv(t_max', h')) + 1
         IN  IF n < 0
             THEN /\ pc' = "fault"
                  /\ fault' = "ValueError"
                  /\ n_steps' = n
                  /\ UNCHANGED <<t, C, i>>
             ELSE IF n = 0
             THEN /\ pc' = "fault"
                  /\ fault' = "IndexError"
                  /\ n_steps' = n
                  /\ t' = << >>
                  /\ C' = << >>
                  /\ UNCHANGED i
             ELSE /\ pc' = loop
                  /\ fault' = "none"
                  /\ n_steps' = n
                  /\ t' = linspace(t_max', n)
                  /\ C' = [zeros(n) EXCEPT ![1] = C0']
                  /\ i' = 0

\* main(), lines 115-146: read the widgets, fix the parameters, call the
\* explicit integrator.
main(hh, m) ==
    /\ pc = "idle"
    /\ caller' = "main"
    /\ method' = m
    /\ h' = hh /\ k' = main_k /\ C0' = main_C0 /\ t_max' = main_t_max
    /\ Prologue("explicit_loop")
    /\ UNCHANGED <<t_explicit, C_explicit, t_implicit, C_implicit,
                   accuracy, stability>>

\* A direct call generate_explicit_euler(h, k, C0, t_max).
generate_explicit_euler(hh, kk, cc, tt) ==
    /\ pc = "idle"
    /\ caller' = "generate_explicit_euler"
    /\ h' = hh /\ k' = kk /\ C0' = cc /\ t_max' = tt
    /\ Prologue("explicit_loop")
    /\ UNCHANGED <<method, t_explicit, C_explicit, t_implicit, C_implicit,
                   accuracy, stability>>

\* A direct call generate_implicit_euler(h, k, C0, t_max).
generate_implicit_euler(hh, kk, cc, tt) ==
    /\ pc = "idle"
    /\ caller' = "generate_implicit_euler"
    /\ h' = hh /\ k' = kk /\ C0' = cc /\ t_max' = tt
    /\ Prologue("implicit_loop")
    /\ UNCHANGED <<method, t_explicit, C_explicit, t_implicit, C_implicit,
                   accuracy, stability>>

\* One iteration of the loop at lines 78-83.
explicit_step ==
    /\ pc = "explicit_loop"
    /\ i < n_steps - 1
    /\ LET c == ExplicitUpdate(C[i + 1], h, k)
       IN  IF Diverged(c)
           THEN /\ C' = NanTail([C EXCEPT ![i + 2] = c], i + 2)
                /\ pc' = "explicit_break"
                /\ UNCHANGED i
           ELSE /\ C' = [C EXCEPT ![i + 2] = c]
                /\ i' = i + 1
                /\ UNCHANGED pc
    /\ UNCHANGED <<caller, fault, method, h, k, C0, t_max, n_steps, t,
                   t_explicit, C_explicit, t_implicit, C_implicit,
                   accuracy, stability>>

\* Line 85: return t, C  (to main at line 146, or to the direct caller).
explicit_return ==
    /\ \/ pc = "explicit_loop" /\ i >= n_steps - 1
       \/ pc = "explicit_break"
    /\ IF caller = "main"
       THEN /\ t_explicit' = t
            /\ C_explicit' = C
            /\ pc' = "main_147"
       ELSE /\ pc' = "explicit_returned"
            /\ UNCHANGED <<t_explicit, C_explicit>>
    /\ UNCHANGED <<caller, fault, method, h, k, C0, t_max, n_steps, t, C, i,
                   t_implicit, C_implicit, accuracy, stability>>

\* main(), line 147: call the implicit integrator.
main_call_implicit ==
    /\ pc = "main_147"
    /\ UNCHANGED <<h, k, C0, t_max>>
    /\ Prologue("implicit_loop")
    /\ UNCHANGED <<caller, method, t_explicit, C_explicit,
                   t_implicit, C_implicit, accuracy, stability>>

\* One iteration of the loop at lines 94-95.
implicit_step ==
    /\ pc = "implicit_loop"
    /\ i < n_steps - 1
    /\ C' = [C EXCEPT ![i + 2] = ImplicitUpdate(C[i + 1], h, k)]
    /\ i' = i + 1
    /\ UNCHANGED <<caller, pc, fault, method, h, k, C0, t_max, n_steps, t,
                   t_explicit, C_explicit, t_implicit, C_implicit,
                   accuracy, stability>>

\* Line 97: return t, C.
implicit_return ==
    /\ pc = "implicit_loop"
    /\ i >= n_steps - 1
    /\ IF caller = "main"
       THEN /\ t_implicit' = t
            /\ C_implicit' = C
            /\ pc' = "main_194"
       ELSE /\ pc' = "implicit_returned"
            /\ UNCHANGED <<t_implicit, C_implicit>>
    /\ UNCHANGED <<caller, fault, method, h, k, C0, t_max, n_steps, t, C, i,
                   t_explicit, C_explicit, accuracy, stability>>

-----------------------------------------------------------------------------
(* Diagnosis made by main().                                                *)

\* critical_h = 2 / k
critical_h == RDiv(R(2), k)

\* C0 * np.exp(-k * t_max) for main's parameters: 4 exp(-5) = 0.0269517...,
\* rounded to 0.02695
C_analytical_final == <<539, 20000>>

\* C_explicit[-1] if not np.isnan(C_explicit[-1]) else float('inf')
C_explicit_final ==
    IF ~IsNaN(C_explicit[Len(C_explicit)]) THEN C_explicit[Len(C_explicit)]
    ELSE Inf

C_implicit_final == C_implicit[Len(C_implicit)]

\* abs(final - C_analytical_final); abs(inf - x) = inf
AbsError(final) ==
    IF final = Inf THEN Inf ELSE RAbs(RSub(final, C_analytical_final))

error_explicit == AbsError(C_explicit_final)

error_implicit == AbsError(C_implicit_final)

\* Lines 202-238: the heading of the accuracy box.
AccuracyBox(m, ee) ==
    IF m = "Explicit Euler"
    THEN IF RLt(ee, <<1, 100>>) THEN "Excellent Accuracy!"
         ELSE IF RLt(ee, <<1, 10>>) THEN "Good Accuracy"
         ELSE "Poor Accuracy!"
    ELSE "Implicit Euler Results"

\* the boundary itself counted as unstable: h >= critical_h
StabilityBoxInclusive(m, hh, crit) ==
    IF m = "Explicit Euler"
    THEN IF RLe(crit, hh) THEN "UNSTABLE!"
         ELSE IF RGt(hh, RMul(crit, <<4, 5>>)) THEN "Near Stability Limit"
         ELSE "Stable Region"
    ELSE "Always Stable"

\* the warning band starting at 0.9 critical_h instead of 0.8 critical_h
StabilityBoxNarrowBand(m, hh, crit) ==
    IF m = "Explicit Euler"
    THEN IF RGt(hh, crit) THEN "UNSTABLE!"
         ELSE IF RGt(hh, RMul(crit, <<9, 10>>)) THEN "Near Stability Limit"
         ELSE "Stable Region"
    ELSE "Always Stable"

\* Lines 243-279: the heading of the stability box.
StabilityBox(m, hh, crit) ==
    IF m = "Explicit Euler"
    THEN IF RGt(hh, crit) THEN "UNSTABLE!"
         ELSE IF RGt(hh, RMul(crit, <<4, 5>>)) THEN "Near Stability Limit"
         ELSE "Stable Region"
    ELSE "Always Stable"

\* main(), lines 194-279.
diagnose ==
    /\ pc = "main_194"
    /\ accuracy' = AccuracyBox(method, error_explicit)
    /\ stability' = StabilityBox(method, h, critical_h)
    /\ pc' = "main_done"
    /\ UNCHANGED <<caller, fault, method, h, k, C0, t_max, n_steps, t, C, i,
                   t_explicit, C_explicit, t_implicit, C_implicit>>

Next ==
    \/ \E hh \in SliderH, m \in Methods : main(hh, m)
    \/ \E hh \in ArgH, kk \in ArgK, cc \in ArgC0, tt \in ArgTMax :
          generate_explicit_euler(hh, kk, cc, tt)
    \/ \E hh \in ArgH, kk \in ArgK, cc \in ArgC0, tt \in ArgTMax :
          generate_implicit_euler(hh, kk, cc, tt)
    \/ explicit_step
    \/ explicit_return
    \/ main_call_implicit
    \/ implicit_step
    \/ implicit_return
    \/ diagnose

Spec == Init /\ [][Next]_vars

-----------------------------------------------------------------------------
(* Vocabulary of the properties.                                            *)

Positive(x) == RGt(x, R(0))

ValidParameters == Positive(h) /\ Positive(k) /\ Positive(t_max)

\* an integrator has returned and t, C hold the returned trajectory
ExplicitReturned == pc \in {"explicit_returned", "main_147"}

ImplicitReturned == pc \in {"implicit_returned", "main_194"}

Numeric(x) == ~IsNaN(x)

\* the multiplier 1 - h k of the forward method
ForwardFactor == RSub(R(1), RMul(h, k))

\* the stability boundary 2 / k
Boundary == RDiv(R(2), k)

-----------------------------------------------------------------------------
\* C1: for valid parameters both integrators return floor(t_max/h) + 1 time
\* points that start at 0, advance by exactly h and end at t_max.
C1_TimeGridStepH ==
    (ValidParameters /\ (ExplicitReturned \/ ImplicitReturned)) =>
        /\ Len(t) = RInt(RDiv(t_max, h)) + 1
        /\ t[1] = R(0)
        /\ \A j \in 1..(Len(t) - 1) : RSub(t[j + 1], t[j]) = h
        /\ t[Len(t)] = t_max

\* C2 as stated: with h > 2/k the magnitudes strictly increase and the
\* returned trajectory ends in an undefined value.
C2_AlwaysDiverges ==
    (ExplicitReturned /\ ValidParameters /\ RGt(h, Boundary)) =>
        /\ \A j \in 1..(Len(C) - 1) :
              Numeric(C[j + 1]) => RGt(RAbs(C[j + 1]), RAbs(C[j]))
        /\ IsNaN(C[Len(C)])

\* C2 amended: with h > 2/k and C0 # 0 the magnitude strictly increases from
\* each numeric element to the next, and the trajectory ends in an undefined
\* tail exactly when one of its floor(t_max/h) updates exceeds 1000.
C2_GrowsAndCutsOnlyAbove1000 ==
    (ExplicitReturned /\ ValidParameters /\ RGt(h, Boundary) /\ C0 # R(0)) =>
        /\ \A j \in 1..(Len(C) - 1) :
              Numeric(C[j + 1]) => RGt(RAbs(C[j + 1]), RAbs(C[j]))
        /\ IsNaN(C[Len(C)]) <=>
              \E j \in 1..(Len(C) - 1) :
                 /\ Numeric(C[j])
                 /\ RGt(RAbs(RMul(C[j], ForwardFactor)), R(1000))

\* C2 witness: an unstable run that grows but returns no undefined value.
C2_Witness ==
    /\ ExplicitReturned /\ ValidParameters /\ RGt(h, Boundary)
    /\ C0 # R(0)
    /\ Len(C) >= 3
    /\ Numeric(C[Len(C)])

\* C3 as stated: h = h_critical is "stable", h above it "unstable", h strictly
\* between 0.8 h_critical and h_critical "near-limit".
C3_BoundaryIsStable ==
    (pc = "main_done" /\ method = "Explicit Euler") =>
        /\ (h = Boundary) => stability = "Stable Region"
        /\ RGt(h, Boundary) => stability = "UNSTABLE!"
        /\ (RGt(h, RMul(<<4, 5>>, Boundary)) /\ RLt(h, Boundary)) =>
              stability = "Near Stability Limit"

\* C3 amended: h = h_critical is "near-limit" (not "stable"), h above it
\* "unstable", h strictly between 0.8 h_critical and h_critical "near-limit".
C3_BoundaryIsNearLimit ==
    (pc = "main_done" /\ method = "Explicit Euler") =>
        /\ (h = Boundary) => stability = "Near Stability Limit"
        /\ RGt(h, Boundary) => stability = "UNSTABLE!"
        /\ (RGt(h, RMul(<<4, 5>>, Boundary)) /\ RLt(h, Boundary)) =>
              stability = "Near Stability Limit"

\* C3 witness: the explicit method diagnosed at h = h_critical.
C3_Witness ==
    /\ pc = "main_done" /\ method = "Explicit Euler"
    /\ h = Boundary

\* error of the selected method at the end of the horizon
SelectedError ==
    IF method = "Explicit Euler" THEN error_explicit ELSE error_implicit

\* the final value of the selected method is undefined
SelectedUndefined ==
    method = "Explicit Euler" /\ IsNaN(C_explicit[Len(C_explicit)])

\* C4: whichever method is selected, the accuracy tier is excellent iff
\* e < 0.01, good iff 0.01 <= e < 0.1, poor iff e >= 0.1 or the final value
\* is undefined.
C4_AccuracyTierEitherMethod ==
    (pc = "main_done") =>
        /\ accuracy = "Excellent Accuracy!" <=>
              (~SelectedUndefined /\ RLt(SelectedError, <<1, 100>>))
        /\ accuracy = "Good Accuracy" <=>
              (/\ ~SelectedUndefined
               /\ RLe(<<1, 100>>, SelectedError)
               /\ RLt(SelectedError, <<1, 10>>))
        /\ accuracy = "Poor Accuracy!" <=>
              (SelectedUndefined \/ RLe(<<1, 10>>, SelectedError))

\* C5: a call with k <= 0, t_max <= 0 or h <= 0 is rejected before solving:
\* it neither enters an integrator, nor returns a trajectory, nor faults.
C5_InvalidParametersRejected ==
    (caller # "none" /\ ~ValidParameters) =>
        /\ fault = "none"
        /\ pc \notin {"explicit_loop", "explicit_break", "implicit_loop"}
        /\ ~ExplicitReturned
        /\ ~ImplicitReturned

\* C6: in the explicit integrator element 0 is C0, the undefined values form
\* a suffix that starts at the first update whose magnitude exceeds 1000,
\* nothing is computed once the suffix is written, and every numeric element
\* after element 0 has magnitude at most 1000.
C6_UndefinedSuffix ==
    (pc \in {"explicit_loop", "explicit_break"} \/ ExplicitReturned) =>
        /\ C[1] = C0 /\ Numeric(C[1])
        /\ \A a, b \in 1..Len(C) : (a < b /\ IsNaN(C[a])) => IsNaN(C[b])
        /\ (pc = "explicit_loop") => \A j \in 1..Len(C) : Numeric(C[j])
        /\ \A j \in 2..Len(C) :
              Numeric(C[j]) => RLe(RAbs(C[j]), R(1000))
        /\ \A j \in 2..Len(C) :
              (IsNaN(C[j]) /\ Numeric(C[j - 1])) =>
                 RGt(RAbs(RMul(C[j - 1], ForwardFactor)), R(1000))
        /\ ExplicitReturned =>
              \A j \in 2..Len(C) :
                 (/\ Numeric(C[j - 1])
                  /\ RGt(RAbs(RMul(C[j - 1], ForwardFactor)), R(1000))) =>
                    \A x \in j..Len(C) : IsNaN(C[x])

\* C6 witness: a returned trajectory whose undefined suffix starts after
\* several numeric elements and is more than one element long.
C6_Witness ==
    /\ ExplicitReturned
    /\ \E j \in 3..(Len(C) - 1) : IsNaN(C[j]) /\ Numeric(C[j - 1])

\* C7: with 0 < h < 2/k the explicit trajectory has no undefined marker.
C7_StableNeverUndefined ==
    (ExplicitReturned /\ ValidParameters /\ RLt(h, Boundary)) =>
        \A j \in 1..Len(C) : Numeric(C[j])

\* C8: for valid parameters the implicit trajectory starts at C0, each
\* element is the previous one divided by 1 + h k, magnitudes never grow and
\* no element is undefined.
C8_ImplicitContracts ==
    ((pc = "implicit_loop" \/ ImplicitReturned) /\ ValidParameters) =>
        /\ C[1] = C0
        /\ \A j \in 1..i :
              /\ RMul(C[j + 1], RAdd(R(1), RMul(h, k))) = C[j]
              /\ RLe(RAbs(C[j + 1]), RAbs(C[j]))
        /\ ImplicitReturned => i = Len(C) - 1
        /\ \A j \in 1..Len(C) : Numeric(C[j])

\* C8 witness: a returned implicit trajectory of several steps that starts
\* above the threshold of the explicit method.
C8_Witness ==
    /\ ImplicitReturned /\ ValidParameters
    /\ RGt(RAbs(C0), R(1000))
    /\ Len(C) >= 3

\* C9: the stability tier is determined by (method, h, k) alone: explicit is
\* unstable iff h > 2/k, near-limit iff 0.8 (2/k) < h <= 2/k, stable iff
\* h <= 0.8 (2/k); implicit is always unconditionally stable.
C9_StabilityTier ==
    (pc = "main_done") =>
        stability =
           IF method = "Implicit Euler" THEN "Always Stable"
           ELSE IF RLt(Boundary, h) THEN "UNSTABLE!"
           ELSE IF RLe(h, RMul(<<4, 5>>, Boundary)) THEN "Stable Region"
           ELSE "Near Stability Limit"

\* C9 witness: an explicit diagnosis strictly between 0.8 h_critical and
\* h_critical.
C9_Witness ==
    /\ pc = "main_done" /\ method = "Explicit Euler"
    /\ RLt(RMul(<<4, 5>>, Boundary), h) /\ RLt(h, Boundary)
    /\ stability = "Near Stability Limit"

\* C10: in a returned explicit trajectory element 0 is C0 and every numeric
\* element is its predecessor times 1 - h k; with h k = 1 every element
\* after the first is 0.
C10_ForwardRecurrence ==
    ExplicitReturned =>
        /\ C[1] = C0
        /\ \A j \in 1..(Len(C) - 1) :
              Numeric(C[j + 1]) => C[j + 1] = RMul(C[j], ForwardFactor)
        /\ (RMul(h, k) = R(1)) => \A j \in 2..Len(C) : C[j] = R(0)

\* C10 witness: a returned trajectory with h k = 1, a nonzero start and
\* several steps.
C10_Witness ==
    /\ ExplicitReturned
    /\ RMul(h, k) = R(1)
    /\ C0 # R(0)
    /\ Len(C) >= 3

=============================================================================
